---- MODULE Spec2Model ----
(***************************************************************************)
(* A model of the MIVA dashboard: the credential check (utils/auth.py,     *)
(* app_enhanced.py), the database access layer with its fixed-TTL          *)
(* memoization (utils/database.py), the login gate of app.py and the       *)
(* content pages that call the access layer.                               *)
(*                                                                         *)
(* Texts (query strings) are sequences of tokens; a tabular result is the  *)
(* ascending sequence of the row identifiers it holds.                     *)
(***************************************************************************)
EXTENDS Integers, Sequences, FiniteSets, TLC

VARIABLES
    env,            \* os.environ: APP_USERNAME / APP_PASSWORD, set or unset
    db,             \* external database: table -> set of row identifiers
    keys,           \* external database: the key constraints of the catalog
    dbUp,           \* whether psycopg2.connect succeeds
    now,            \* time.monotonic(), in seconds
    cache,          \* st.cache_data entries of the six memoized functions
    authenticated,  \* st.session_state.authenticated, per session
    inState,        \* 'authenticated' in st.session_state, per session
    username,       \* st.session_state.username, per session
    db_connected,   \* st.session_state.db_connected, per session
    query_history,  \* st.session_state.query_history, per session
    last_result,    \* st.session_state.last_result, per session
    analytics,      \* st.session_state keys of Advanced Analytics, per session
    views,          \* st.session_state keys of Table Views, per session
    pc,             \* position of a session inside get_table_stats (stepwise)
    lock,           \* holder of the compute lock of get_table_stats' entry
    acc,            \* locals of a running get_table_stats, per session
    scans,          \* number of per-table count scans started since Init
    obs             \* what the last step did: operation, inputs, calls, result

vars == <<env, db, keys, dbUp, now, cache, authenticated, inState, username,
          db_connected, query_history, last_result, analytics, views, pc, lock,
          acc, scans, obs>>

(***************************************************************************)
(* Bounds of the model.                                                    *)
(***************************************************************************)
MaxRows == 2
MaxHistory == 2
MaxColumnLen == 5
MaxNumericCols == 3

(***************************************************************************)
(* Program constants.                                                      *)
(***************************************************************************)
TTL_LONG == 300
TTL_SHORT == 60
MIN_ROWS_TO_LOAD == 100
MAX_ROWS_TO_LOAD == 10000
DEFAULT_ROWS_TO_LOAD == 1000

Sessions == {"s1", "s2"}
TableList == <<"chat_feedback", "chat_sessions">>
Tables == {TableList[i] : i \in DOMAIN TableList}
RowIds == 1..MaxRows
Limits == {0, 1, 2, 100, 1000, 10000}
\* The instants at which the clock is read: the start and the two expiry times.
Instants == {0, TTL_SHORT, TTL_LONG}

None == "None"
NoTable == "-"

Min(a, b) == IF a <= b THEN a ELSE b

InSeq(x, q) == \E i \in DOMAIN q : q[i] = x

\* The ascending sequence of the elements of a finite set of integers.
SortedSeq(S) ==
    LET n == Cardinality(S)
        rank == [x \in S |-> Cardinality({y \in S : y <= x})]
    IN  IF S = 1..n THEN [i \in 1..n |-> i]
        ELSE [i \in 1..n |-> CHOOSE x \in S : rank[x] = i]

RECURSIVE SumOver(_, _)
SumOver(f, S) ==
    IF S = {} THEN 0
    ELSE LET x == CHOOSE y \in S : TRUE IN f[x] + SumOver(f, S \ {x})

EmptyFrame == <<>>
IsEmptyFrame(df) == Len(df) = 0

(***************************************************************************)
(* Credential check.                                                       *)
(***************************************************************************)
EnvVars == {"APP_USERNAME", "APP_PASSWORD"}
Usernames == {"miva_admin", "admin", ""}
Passwords == {"password", "secret", ""}

\* os.getenv(name, default)
getenv(name, default) ==
    IF env[name].set THEN env[name].val ELSE default

\* hashlib.sha256(password.encode()).hexdigest() on the texts of the model
hash_password(password) ==
    CASE password = "password" ->
           "5e884898da28047151d0e56f8dc6292773603d0d6aabbdd62a11ef721d1542d8"
      [] password = "secret" ->
           "2bb80d537b1da3e38bd30361aa855686bde0eacd7162fef6a25fe97bf527a25b"
      [] password = "" ->
           "e3b0c44298fc1c149afbf4c8996fb92427ae41e4649b934ca495991b7852b855"
      [] OTHER -> "digest-of-other-text"

check_authentication_UserOnly(u, p) ==
    u = getenv("APP_USERNAME", "miva_admin")

check_authentication(u, p) ==
    LET correct_username == getenv("APP_USERNAME", "miva_admin")
        correct_password == getenv("APP_PASSWORD", "password")
    IN u = correct_username /\ p = correct_password

check_credentials(u, p) ==
    u = "miva_admin" /\ hash_password(p) = hash_password("password")

(***************************************************************************)
(* Query texts and the database's execution of them.                       *)
(***************************************************************************)
WS == " "

\* str.upper(), token by token
UpperTok(tok) ==
    CASE tok = "select" -> "SELECT"
      [] tok = "delete" -> "DELETE"
      [] tok = "insert" -> "INSERT"
      [] tok = "with" -> "WITH"
      [] tok = "returning" -> "RETURNING"
      [] tok = "chat_feedback" -> "CHAT_FEEDBACK"
      [] tok = "chat_sessions" -> "CHAT_SESSIONS"
      [] OTHER -> tok

upper(text) == [i \in DOMAIN text |-> UpperTok(text[i])]

\* str.strip(): leading and trailing whitespace is dropped
RECURSIVE lstrip(_)
lstrip(text) ==
    IF text # <<>> /\ Head(text) = WS THEN lstrip(Tail(text)) ELSE text

RECURSIVE rstrip(_)
rstrip(text) ==
    IF text # <<>> /\ text[Len(text)] = WS
    THEN rstrip(SubSeq(text, 1, Len(text) - 1))
    ELSE text

strip(text) == rstrip(lstrip(text))

startswith(text, word) == text # <<>> /\ Head(text) = word

IsSelect_CaseSensitive(query) == startswith(strip(query), "SELECT")

\* database.py:123  query.strip().upper().startswith('SELECT')
IsSelect(query) == startswith(upper(strip(query)), "SELECT")

QueryTexts ==
    UNION {
      { <<"SELECT", t>>,
        <<WS, "select", t, WS>>,
        <<"WITH", t>>,
        <<"DELETE", t>>,
        <<"INSERT", t>>,
        <<"SELECT", t, ";", "DELETE", t>>,
        <<"SELECT", t, ";", "DELETE", t, "RETURNING">> } : t \in Tables }
    \cup { <<"SELECT", "1/0">>, <<WS>>, <<"SELEC", "chat_feedback">> }

\* The statements of a text: split at ";", whitespace and empty statements dropped.
RECURSIVE Statements(_, _)
Statements(text, cur) ==
    IF text = <<>> THEN (IF cur = <<>> THEN <<>> ELSE <<cur>>)
    ELSE IF Head(text) = ";"
         THEN (IF cur = <<>> THEN <<>> ELSE <<cur>>) \o Statements(Tail(text), <<>>)
    ELSE IF Head(text) = WS THEN Statements(Tail(text), cur)
    ELSE Statements(Tail(text), Append(cur, Head(text)))

NextRowId(rows) == CHOOSE i \in 1..(MaxRows + 1) :
                      i \notin rows /\ \A j \in 1..(i - 1) : j \in rows

StmtFail(d, msg) ==
    [ok |-> FALSE, db |-> d, res |-> FALSE, rows |-> EmptyFrame, rowcount |-> 0,
     err |-> msg]

StmtOk(d, res, rows, n) ==
    [ok |-> TRUE, db |-> d, res |-> res, rows |-> rows, rowcount |-> n, err |-> ""]

\* One statement executed by the server on database d (keywords in any case).
ExecStmt(stmt, d) ==
    LET kw == UpperTok(stmt[1])
        t == IF Len(stmt) >= 2 THEN stmt[2] ELSE NoTable
    IN  IF Len(stmt) = 2 /\ kw = "SELECT" /\ t = "1/0"
          THEN StmtFail(d, "division by zero")
        ELSE IF t \notin Tables THEN StmtFail(d, "syntax error")
        ELSE IF Len(stmt) = 2 /\ kw \in {"SELECT", "WITH"}
          THEN StmtOk(d, TRUE, SortedSeq(d[t]), Cardinality(d[t]))
        ELSE IF Len(stmt) = 2 /\ kw = "DELETE"
          THEN StmtOk([d EXCEPT ![t] = {}], FALSE, EmptyFrame, Cardinality(d[t]))
        ELSE IF Len(stmt) = 3 /\ kw = "DELETE" /\ UpperTok(stmt[3]) = "RETURNING"
          THEN StmtOk([d EXCEPT ![t] = {}], TRUE, SortedSeq(d[t]), Cardinality(d[t]))
        ELSE IF Len(stmt) = 2 /\ kw = "INSERT"
          THEN StmtOk([d EXCEPT ![t] = @ \cup {NextRowId(@)}], FALSE, EmptyFrame, 1)
        ELSE StmtFail(d, "syntax error")

\* cursor.execute(text): the statements run in order in one transaction; the
\* cursor holds the outcome of the last one; a failing statement fails the whole.
RECURSIVE ExecAll(_, _)
ExecAll(stmts, r) ==
    IF stmts = <<>> \/ ~r.ok THEN r
    ELSE ExecAll(Tail(stmts), ExecStmt(Head(stmts), r.db))

cursor_execute(text, d) ==
    LET stmts == Statements(text, <<>>)
    IN  IF stmts = <<>> THEN StmtFail(d, "can't execute an empty query")
        ELSE ExecAll(stmts, StmtOk(d, FALSE, EmptyFrame, 0))

StatusSuccess == <<"success">>
StatusAffected(n) == <<"Query executed successfully. Rows affected:", n>>
StatusError(msg) == <<"Error:", msg>>

QueryReturn(df, status, d) == [df |-> df, status |-> status, db |-> d]

\* pd.read_sql(query, conn) inside "with psycopg2.connect(...) as conn": the
\* frame is built from cursor.description, which is None when the last
\* statement returns no rows; leaving the block commits, an exception rolls back.
read_sql(query, d) ==
    LET r == cursor_execute(query, d)
    IN  IF ~r.ok THEN QueryReturn(EmptyFrame, StatusError(r.err), d)
        ELSE IF ~r.res
          THEN QueryReturn(EmptyFrame,
                           StatusError("'NoneType' object is not iterable"), d)
        ELSE QueryReturn(r.rows, StatusSuccess, r.db)

execute_statement(query, d) ==
    LET r == cursor_execute(query, d)
    IN  IF ~r.ok THEN QueryReturn(EmptyFrame, StatusError(r.err), d)
        ELSE QueryReturn(EmptyFrame, StatusAffected(r.rowcount), r.db)

\* database.py:118  execute_query(query) -> (frame, status), and the database after
execute_query(query) ==
    IF ~dbUp THEN QueryReturn(EmptyFrame, StatusError("connection failed"), db)
    ELSE IF IsSelect(query) THEN read_sql(query, db)
    ELSE execute_statement(query, db)

(***************************************************************************)
(* Catalog of the external database (information_schema), fixed.           *)
(***************************************************************************)
Columns ==
    [chat_feedback |-> <<"id", "session_id", "rating", "feedback_type", "created_at">>,
     chat_sessions |-> <<"id", "email">>]

\* information_schema.key_column_usage joined with table_constraints
KeyColumnUsage ==
    { [table |-> "chat_feedback", column |-> "id",
       constraint |-> "chat_feedback_pkey", type |-> "PRIMARY KEY"],
      [table |-> "chat_feedback", column |-> "session_id",
       constraint |-> "chat_feedback_session_fkey", type |-> "FOREIGN KEY"],
      [table |-> "chat_sessions", column |-> "id",
       constraint |-> "chat_sessions_pkey", type |-> "PRIMARY KEY"],
      [table |-> "chat_sessions", column |-> "email",
       constraint |-> "chat_sessions_email_key", type |-> "UNIQUE"] }

\* key constraints a schema may have besides: a composite unique key that
\* includes the primary-key column, a primary-key column that is a foreign key
OtherKeyColumnUsage ==
    { [table |-> "chat_feedback", column |-> "id",
       constraint |-> "chat_feedback_id_session_key", type |-> "UNIQUE"],
      [table |-> "chat_feedback", column |-> "session_id",
       constraint |-> "chat_feedback_id_session_key", type |-> "UNIQUE"],
      [table |-> "chat_sessions", column |-> "id",
       constraint |-> "chat_sessions_id_fkey", type |-> "FOREIGN KEY"] }

Catalogs == SUBSET (KeyColumnUsage \cup OtherKeyColumnUsage)

ConstraintOrder == <<"chat_feedback_pkey", "chat_feedback_session_fkey",
                     "chat_sessions_pkey", "chat_sessions_email_key",
                     "chat_feedback_id_session_key", "chat_sessions_id_fkey">>

\* pg_database_size / pg_relation_size, in pages: one per row and one of overhead
RelationSize(d, t) == 1 + Cardinality(d[t])
DatabaseSize(d) == SumOver([t \in Tables |-> RelationSize(d, t)], Tables)

Indexes(t) == {k.constraint : k \in {u \in keys :
                  u.table = t /\ u.type \in {"PRIMARY KEY", "UNIQUE"}}}

(***************************************************************************)
(* st.cache_data: one entry per function and argument tuple, with the time *)
(* it was computed.  A call context threads the cache through the calls of *)
(* one script run and records the calls, the connections and the errors.   *)
(***************************************************************************)
NoEntry(v) == [has |-> FALSE, at |-> 0, val |-> v]
Entry(v) == [has |-> TRUE, at |-> now, val |-> v]

NoStats == [has |-> FALSE, table_count |-> 0, total_columns |-> 0,
            db_size |-> 0, total_records |-> 0]
NoMetadata == [has |-> FALSE, size |-> 0, row_count |-> 0,
               columns |-> <<>>, indexes |-> {}]

\* the texts run from the query box of app_enhanced.py
EnhancedTexts == { <<"SELECT", "chat_feedback">>, <<"SELECT", "1/0">> }

EmptyCache ==
    [list_tables |-> NoEntry(<<>>),
     list_columns |-> [t \in Tables |-> NoEntry(<<>>)],
     get_table_data |-> [k \in Tables \X Limits |-> NoEntry(EmptyFrame)],
     get_table_count |-> [t \in Tables |-> NoEntry(0)],
     get_table_stats |-> NoEntry(NoStats),
     get_table_metadata |-> [t \in Tables |-> NoEntry(NoMetadata)],
     load_table_data |-> [k \in Tables \X Limits |-> NoEntry(EmptyFrame)],
     execute_custom_query |-> [q \in EnhancedTexts |-> NoEntry(EmptyFrame)],
     enhanced_get_table_stats |-> NoEntry([t \in Tables |-> 0])]

Fresh_Never(e, ttl) == FALSE

Fresh_Inclusive(e, ttl) == e.has /\ now <= e.at + ttl

\* @st.cache_data(ttl=...): an entry is served while now < computed-at + ttl
Fresh(e, ttl) == e.has /\ now < e.at + ttl

NewCtx(c) == [cache |-> c, trips |-> 0, calls |-> {}, errors |-> {}, unclosed |-> 0]

Called(ctx, op) == [ctx EXCEPT !.calls = @ \cup {op}]

Connected_Silent(ctx, op) ==
    [ctx EXCEPT !.trips = @ + 1, !.unclosed = IF dbUp THEN @ + 1 ELSE @]

\* "with psycopg2.connect(**db_config) as conn" by operation op: leaving the
\* block ends the transaction and leaves the connection open, the code calls no
\* close(); st.error(...) when the connection fails
Connected(ctx, op) ==
    [ctx EXCEPT !.trips = @ + 1,
                !.unclosed = IF dbUp THEN @ + 1 ELSE @,
                !.errors = IF dbUp THEN @ ELSE @ \cup {op}]

Return(ctx, v) == [ctx |-> ctx, ret |-> v]

\* database.py:32  connect, then conn.close()
test_connection(ctx) ==
    Return([Called(ctx, "test_connection") EXCEPT !.trips = @ + 1], dbUp)

list_tables_ErrorNotStored(ctx) ==
    LET c0 == Called(ctx, "list_tables")
        e == c0.cache.list_tables
    IN  IF Fresh(e, TTL_LONG) THEN Return(c0, e.val)
        ELSE LET c1 == Connected(c0, "list_tables")
             IN  IF dbUp
                 THEN Return([c1 EXCEPT !.cache.list_tables = Entry(TableList)],
                             TableList)
                 ELSE Return(c1, <<>>)

\* database.py:41
list_tables(ctx) ==
    LET c0 == Called(ctx, "list_tables")
        e == c0.cache.list_tables
    IN  IF Fresh(e, TTL_LONG) THEN Return(c0, e.val)
        ELSE LET v == IF dbUp THEN TableList ELSE <<>>
                 c1 == Connected(c0, "list_tables")
             IN  Return([c1 EXCEPT !.cache.list_tables = Entry(v)], v)

\* The rows of the LEFT JOINs of list_columns for column i of table t: one row
\* per key_column_usage row of the column (or one row when it has none), flagged
\* when that usage row belongs to a PRIMARY KEY constraint.
ColumnRows(t, i) ==
    LET col == Columns[t][i]
        ks == [j \in DOMAIN ConstraintOrder |->
                 {k \in keys : k.table = t /\ k.column = col
                                         /\ k.constraint = ConstraintOrder[j]}]
        Row(pk) == [ordinal_position |-> i, column_name |-> col,
                    is_primary_key |-> pk]
        RECURSIVE Walk(_)
        Walk(j) ==
            IF j > Len(ConstraintOrder) THEN <<>>
            ELSE (IF ks[j] = {} THEN <<>>
                  ELSE <<Row(\E k \in ks[j] : k.type = "PRIMARY KEY")>>)
                 \o Walk(j + 1)
        joined == Walk(1)
    IN  IF joined = <<>> THEN <<Row(FALSE)>> ELSE joined

RECURSIVE ColumnsFrom(_, _)
ColumnsFrom(t, i) ==
    IF i > Len(Columns[t]) THEN <<>>
    ELSE ColumnRows(t, i) \o ColumnsFrom(t, i + 1)

\* database.py:59
list_columns(ctx, t) ==
    LET c0 == Called(ctx, "list_columns")
        e == c0.cache.list_columns[t]
    IN  IF Fresh(e, TTL_LONG) THEN Return(c0, e.val)
        ELSE LET v == IF dbUp THEN ColumnsFrom(t, 1) ELSE <<>>
                 c1 == Connected(c0, "list_columns")
             IN  Return([c1 EXCEPT !.cache.list_columns[t] = Entry(v)], v)

select_limit_Unbounded(d, t, limit) == SortedSeq(d[t])

\* SELECT * FROM "schema"."table" LIMIT %s
select_limit(d, t, limit) ==
    LET all == SortedSeq(d[t]) IN SubSeq(all, 1, Min(limit, Len(all)))

\* database.py:94
get_table_data(ctx, t, limit) ==
    LET c0 == Called(ctx, "get_table_data")
        e == c0.cache.get_table_data[<<t, limit>>]
    IN  IF Fresh(e, TTL_SHORT) THEN Return(c0, e.val)
        ELSE LET v == IF dbUp THEN select_limit(db, t, limit) ELSE EmptyFrame
                 c1 == Connected(c0, "get_table_data")
             IN  Return([c1 EXCEPT !.cache.get_table_data[<<t, limit>>] = Entry(v)],
                        v)

\* database.py:105
get_table_count(ctx, t) ==
    LET c0 == Called(ctx, "get_table_count")
        e == c0.cache.get_table_count[t]
    IN  IF Fresh(e, TTL_SHORT) THEN Return(c0, e.val)
        ELSE LET v == IF dbUp THEN Cardinality(db[t]) ELSE 0
                 c1 == Connected(c0, "get_table_count")
             IN  Return([c1 EXCEPT !.cache.get_table_count[t] = Entry(v)], v)

\* The per-table count loop of get_table_stats over the listed tables.
RECURSIVE CountScan(_, _)
CountScan(d, tables) ==
    IF tables = <<>> THEN 0
    ELSE Cardinality(d[Head(tables)]) + CountScan(d, Tail(tables))

StatsOf(d, tables) ==
    [has |-> TRUE,
     table_count |-> Cardinality(Tables),
     total_columns |-> SumOver([t \in Tables |-> Len(Columns[t])], Tables),
     db_size |-> DatabaseSize(d),
     total_records |-> CountScan(d, tables)]

\* database.py:135
get_table_stats(ctx) ==
    LET c0 == Called(ctx, "get_table_stats")
        e == c0.cache.get_table_stats
    IN  IF Fresh(e, TTL_LONG) THEN Return(c0, e.val)
        ELSE LET c1 == Connected(c0, "get_table_stats")
             IN  IF ~dbUp
                 THEN Return([c1 EXCEPT !.cache.get_table_stats = Entry(NoStats)],
                             NoStats)
                 ELSE LET lt == list_tables(c1)
                          v == StatsOf(db, lt.ret)
                      IN  Return([lt.ctx EXCEPT !.cache.get_table_stats = Entry(v)],
                                 v)

\* database.py:180
get_table_metadata(ctx, t) ==
    LET c0 == Called(ctx, "get_table_metadata")
        e == c0.cache.get_table_metadata[t]
    IN  IF Fresh(e, TTL_LONG) THEN Return(c0, e.val)
        ELSE LET c1 == Connected(c0, "get_table_metadata")
             IN  IF ~dbUp
                 THEN Return([c1 EXCEPT
                                !.cache.get_table_metadata[t] = Entry(NoMetadata)],
                             NoMetadata)
                 ELSE LET tc == get_table_count(c1, t)
                          lc == list_columns(tc.ctx, t)
                          v == [has |-> TRUE, size |-> RelationSize(db, t),
                                row_count |-> tc.ret, columns |-> lc.ret,
                                indexes |-> Indexes(t)]
                      IN  Return([lc.ctx EXCEPT
                                    !.cache.get_table_metadata[t] = Entry(v)], v)

(***************************************************************************)
(* State machine.                                                          *)
(***************************************************************************)
ObsInit ==
    [op |-> "init", sess |-> "-", arg |-> <<>>, calls |-> {}, trips |-> 0,
     errors |-> {}, unclosed |-> 0, ret |-> <<>>]

Observe(op, s, arg, ctx, ret) ==
    [op |-> op, sess |-> s, arg |-> arg, calls |-> ctx.calls, trips |-> ctx.trips,
     errors |-> ctx.errors, unclosed |-> ctx.unclosed, ret |-> ret]

EnvUnset == [v \in EnvVars |-> [set |-> FALSE, val |-> ""]]

EnvChoices ==
    { [APP_USERNAME |-> u, APP_PASSWORD |-> p] :
        u \in {[set |-> FALSE, val |-> ""]}
                \cup {[set |-> TRUE, val |-> x] : x \in Usernames},
        p \in {[set |-> FALSE, val |-> ""]}
                \cup {[set |-> TRUE, val |-> x] : x \in Passwords} }

\* The contents the tables can hold: rows 1..k for k up to MaxRows.
TableContents == {1..k : k \in 0..MaxRows}

\* pages/3_Advanced_Analytics.py:87-91: selected_data None, filters_applied False,
\* the keys current_table and filtered_data absent
AnalyticsInit ==
    [selected_data |-> [has |-> FALSE, df |-> EmptyFrame],
     current_table |-> "N/A",
     filtered_data |-> [has |-> FALSE, df |-> EmptyFrame],
     filters_applied |-> FALSE]

\* pages/4_ Table_Views.py: the keys selected_table and table_data are absent
\* until a table is selected
ViewsInit ==
    [selected_table |-> NoTable, table_data |-> [has |-> FALSE, df |-> EmptyFrame]]

AccInit == [tables |-> <<>>, total |-> 0, size |-> 0, done |-> FALSE,
            ret |-> NoStats]

InitSessions ==
    /\ authenticated = [s \in Sessions |-> FALSE]
    /\ inState = [s \in Sessions |-> FALSE]
    /\ username = [s \in Sessions |-> None]
    /\ db_connected = [s \in Sessions |-> FALSE]
    /\ query_history = [s \in Sessions |-> <<>>]
    /\ last_result = [s \in Sessions |-> [has |-> FALSE, df |-> EmptyFrame]]
    /\ analytics = [s \in Sessions |-> AnalyticsInit]
    /\ views = [s \in Sessions |-> ViewsInit]
    /\ pc = [s \in Sessions |-> "idle"]
    /\ lock = None
    /\ acc = [s \in Sessions |-> AccInit]
    /\ scans = 0
    /\ obs = ObsInit

Init ==
    /\ env = EnvUnset
    /\ db \in [Tables -> TableContents]
    /\ keys = KeyColumnUsage
    /\ dbUp = TRUE
    /\ now = 0
    /\ cache = EmptyCache
    /\ InitSessions

InitAuth ==
    /\ env \in EnvChoices
    /\ db = [t \in Tables |-> 1..MaxRows]
    /\ keys = KeyColumnUsage
    /\ dbUp = TRUE
    /\ now = 0
    /\ cache = EmptyCache
    /\ InitSessions

sessionVars == <<authenticated, inState, username, db_connected, query_history,
                 last_result>>
statsVars == <<pc, lock, acc, scans>>

(***************************************************************************)
(* Environment.                                                            *)
(***************************************************************************)
Tick(t) ==
    /\ t > now
    /\ now' = t
    /\ obs' = [ObsInit EXCEPT !.op = "tick"]
    /\ UNCHANGED <<keys, analytics, views, env, db, dbUp, cache, sessionVars, statsVars>>

DbToggle ==
    /\ dbUp' = ~dbUp
    /\ obs' = [ObsInit EXCEPT !.op = "toggle"]
    /\ UNCHANGED <<keys, analytics, views, env, db, now, cache, sessionVars, statsVars>>

(***************************************************************************)
(* The credential checks applied to a submitted pair.                      *)
(***************************************************************************)
CheckAuthentication(u, p) ==
    /\ obs' = Observe("check_authentication", "-", <<u, p>>, NewCtx(cache),
                      check_authentication(u, p))
    /\ UNCHANGED <<keys, analytics, views, env, db, dbUp, now, cache, sessionVars, statsVars>>

CheckCredentials(u, p) ==
    /\ obs' = Observe("check_credentials", "-", <<u, p>>, NewCtx(cache),
                      check_credentials(u, p))
    /\ UNCHANGED <<keys, analytics, views, env, db, dbUp, now, cache, sessionVars, statsVars>>

NextAuth ==
    \E u \in Usernames, p \in Passwords :
        \/ CheckAuthentication(u, p)
        \/ CheckCredentials(u, p)

SpecAuth == InitAuth /\ [][NextAuth]_vars

(***************************************************************************)
(* The access layer called directly, one call per step.                    *)
(***************************************************************************)
AccessCall(op, arg, r) ==
    /\ cache' = r.ctx.cache
    /\ obs' = Observe(op, "-", arg, r.ctx, r.ret)
    /\ UNCHANGED <<keys, analytics, views, env, db, dbUp, now, sessionVars, statsVars>>

CallTestConnection ==
    AccessCall("test_connection", <<>>, test_connection(NewCtx(cache)))

CallListTables ==
    AccessCall("list_tables", <<>>, list_tables(NewCtx(cache)))

CallListColumns(t) ==
    AccessCall("list_columns", <<t>>, list_columns(NewCtx(cache), t))

CallGetTableData(t, n) ==
    AccessCall("get_table_data", <<t, n>>, get_table_data(NewCtx(cache), t, n))

CallGetTableCount(t) ==
    AccessCall("get_table_count", <<t>>, get_table_count(NewCtx(cache), t))

CallGetTableStats ==
    AccessCall("get_table_stats", <<>>, get_table_stats(NewCtx(cache)))

CallGetTableMetadata(t) ==
    AccessCall("get_table_metadata", <<t>>, get_table_metadata(NewCtx(cache), t))

WithinBounds(d) == \A t \in Tables : d[t] \subseteq RowIds \cup db[t]

CallExecuteQuery(q) ==
    LET r == execute_query(q)
    IN  /\ WithinBounds(r.db)
        /\ db' = r.db
        /\ obs' = [ObsInit EXCEPT !.op = "execute_query", !.arg = <<q>>,
                                  !.calls = {"execute_query"}, !.trips = 1,
                                  !.unclosed = IF dbUp THEN 1 ELSE 0,
                                  !.ret = [df |-> r.df, status |-> r.status]]
        /\ UNCHANGED <<keys, analytics, views, env, dbUp, now, cache, sessionVars, statsVars>>

NextQuery ==
    \/ DbToggle
    \/ \E q \in QueryTexts : CallExecuteQuery(q)

SpecQuery == Init /\ [][NextQuery]_vars

InitMemo ==
    /\ env = EnvUnset
    /\ db = [t \in Tables |-> 1..MaxRows]
    /\ keys = KeyColumnUsage
    /\ dbUp = TRUE
    /\ now = 0
    /\ cache = EmptyCache
    /\ InitSessions

MemoTables == {"chat_feedback"}
MemoLimits == {1}
WriteTexts == {<<"DELETE", "chat_feedback">>, <<"INSERT", "chat_feedback">>}

NextMemo ==
    \/ \E t \in Instants : Tick(t)
    \/ DbToggle
    \/ CallListTables
    \/ \E t \in MemoTables, n \in MemoLimits : CallGetTableData(t, n)
    \/ \E t \in MemoTables : CallGetTableCount(t)
    \/ \E t \in MemoTables : CallGetTableMetadata(t)
    \/ \E q \in WriteTexts : CallExecuteQuery(q)

SpecMemo == InitMemo /\ [][NextMemo]_vars

\* Every operation of the access layer, called directly.
NextAccess ==
    \/ DbToggle
    \/ CallTestConnection
    \/ CallListTables
    \/ \E t \in MemoTables : CallListColumns(t)
    \/ \E t \in MemoTables, n \in MemoLimits : CallGetTableData(t, n)
    \/ \E t \in MemoTables : CallGetTableCount(t)
    \/ CallGetTableStats
    \/ \E t \in MemoTables : CallGetTableMetadata(t)
    \/ \E q \in WriteTexts : CallExecuteQuery(q)

SpecAccess == InitMemo /\ [][NextAccess]_vars

InitColumns ==
    /\ env = EnvUnset
    /\ db = [t \in Tables |-> 1..MaxRows]
    /\ keys \in Catalogs
    /\ dbUp = TRUE
    /\ now = 0
    /\ cache = EmptyCache
    /\ InitSessions

NextColumns ==
    \/ DbToggle
    \/ \E t \in Tables : CallListColumns(t)

SpecColumns == InitColumns /\ [][NextColumns]_vars

DataLimits == {0, 1, 2}

NextData ==
    \/ DbToggle
    \/ \E t \in Tables, n \in DataLimits : CallGetTableData(t, n)
    \/ \E q \in WriteTexts : CallExecuteQuery(q)

SpecData == Init /\ [][NextData]_vars

(***************************************************************************)
(* app.py: the login gate and the dashboard of the main script.            *)
(***************************************************************************)
accessVars == <<env, db, dbUp, now>>

\* app.py:396  quick statistics of the dashboard, shown when db_connected
Dashboard(ctx, connected) ==
    IF connected THEN get_table_stats(ctx).ctx ELSE ctx

\* app.py:257  main() run with no button pressed
MainRender(s) ==
    LET c == IF inState[s] /\ authenticated[s]
             THEN Dashboard(NewCtx(cache), db_connected[s])
             ELSE NewCtx(cache)
    IN  /\ inState' = [inState EXCEPT ![s] = TRUE]
        /\ cache' = c.cache
        /\ obs' = Observe("Main", s, <<>>, c, <<>>)
        /\ UNCHANGED <<keys, analytics, views, accessVars, authenticated, username, db_connected,
                       query_history, last_result, statsVars>>

LoginSubmit_RecordsAttempt(s, u, p) ==
    LET ok == check_authentication(u, p)
        tc == test_connection(NewCtx(cache))
        c == IF ~ok THEN NewCtx(cache)
             ELSE IF tc.ret THEN Dashboard(tc.ctx, TRUE)
             ELSE tc.ctx
    IN  /\ ~(inState[s] /\ authenticated[s])
        /\ inState' = [inState EXCEPT ![s] = TRUE]
        /\ authenticated' = [authenticated EXCEPT ![s] = IF ok THEN TRUE ELSE @]
        /\ username' = [username EXCEPT ![s] = u]
        /\ db_connected' = [db_connected EXCEPT ![s] =
                                IF ok /\ tc.ret THEN TRUE ELSE @]
        /\ cache' = c.cache
        /\ obs' = Observe("LoginSubmit", s, <<u, p>>, c, ok)
        /\ UNCHANGED <<keys, analytics, views, accessVars, query_history,
                       last_result, statsVars>>

\* app.py:285  main() run with the login form submitted
LoginSubmit(s, u, p) ==
    LET ok == check_authentication(u, p)
        tc == test_connection(NewCtx(cache))
        c == IF ~ok THEN NewCtx(cache)
             ELSE IF tc.ret THEN Dashboard(tc.ctx, TRUE)
             ELSE tc.ctx
    IN  /\ ~(inState[s] /\ authenticated[s])
        /\ inState' = [inState EXCEPT ![s] = TRUE]
        /\ authenticated' = [authenticated EXCEPT ![s] = IF ok THEN TRUE ELSE @]
        /\ username' = [username EXCEPT ![s] = IF ok THEN u ELSE @]
        /\ db_connected' = [db_connected EXCEPT ![s] =
                                IF ok /\ tc.ret THEN TRUE ELSE @]
        /\ cache' = c.cache
        /\ obs' = Observe("LoginSubmit", s, <<u, p>>, c, ok)
        /\ UNCHANGED <<keys, analytics, views, accessVars, query_history, last_result, statsVars>>

Logout_Everyone(s) ==
    /\ inState[s] /\ authenticated[s]
    /\ authenticated' = [t \in Sessions |-> FALSE]
    /\ username' = [t \in Sessions |-> None]
    /\ db_connected' = [t \in Sessions |-> FALSE]
    /\ obs' = Observe("Logout", s, <<>>, NewCtx(cache), <<>>)
    /\ UNCHANGED <<keys, analytics, views, accessVars, cache, inState, query_history,
                   last_result, statsVars>>

Logout_ClearsSession(s) ==
    /\ inState[s] /\ authenticated[s]
    /\ authenticated' = [authenticated EXCEPT ![s] = FALSE]
    /\ username' = [username EXCEPT ![s] = None]
    /\ db_connected' = [db_connected EXCEPT ![s] = FALSE]
    /\ query_history' = [query_history EXCEPT ![s] = <<>>]
    /\ last_result' = [last_result EXCEPT ![s] = [has |-> FALSE, df |-> EmptyFrame]]
    /\ obs' = Observe("Logout", s, <<>>, NewCtx(cache), <<>>)
    /\ UNCHANGED <<keys, analytics, views, accessVars, cache, inState, statsVars>>

Logout_KeepsUsername(s) ==
    /\ inState[s] /\ authenticated[s]
    /\ authenticated' = [authenticated EXCEPT ![s] = FALSE]
    /\ db_connected' = [db_connected EXCEPT ![s] = FALSE]
    /\ obs' = Observe("Logout", s, <<>>, NewCtx(cache), <<>>)
    /\ UNCHANGED <<keys, analytics, views, accessVars, cache, inState, username,
                   query_history, last_result, statsVars>>

\* app.py:333  main() run with Logout pressed
Logout(s) ==
    /\ inState[s] /\ authenticated[s]
    /\ authenticated' = [authenticated EXCEPT ![s] = FALSE]
    /\ username' = [username EXCEPT ![s] = None]
    /\ db_connected' = [db_connected EXCEPT ![s] = FALSE]
    /\ obs' = Observe("Logout", s, <<>>, NewCtx(cache), <<>>)
    /\ UNCHANGED <<keys, analytics, views, accessVars, cache, inState, query_history, last_result,
                   statsVars>>

(***************************************************************************)
(* The content pages.                                                      *)
(***************************************************************************)
ContentPages == {"Overview", "CustomAnalysis", "AdvancedAnalytics", "TableViews"}

PageGate_KeyOnly(s) == inState[s]

\* "if 'authenticated' not in st.session_state or not
\*  st.session_state.authenticated: st.stop()" at the top of every page
PageGate(s) == inState[s] /\ authenticated[s]

RECURSIVE MetadataEach(_, _)
MetadataEach(ctx, tables) ==
    IF tables = <<>> THEN ctx
    ELSE MetadataEach(get_table_metadata(ctx, Head(tables)).ctx, Tail(tables))

\* pages/1_Overview.py:88-201
OverviewBody(ctx) ==
    LET lt == list_tables(ctx)
        ts == get_table_stats(lt.ctx)
    IN  IF lt.ret = <<>> THEN ts.ctx ELSE MetadataEach(ts.ctx, lt.ret)

\* pages/Custom_Analysis.py:64  the sidebar's table list
CustomAnalysisBody(ctx) == list_tables(ctx).ctx

\* pages/3_Advanced_Analytics.py:81
AdvancedAnalyticsBody(ctx) == list_tables(ctx).ctx

RECURSIVE CountAndMetadataEach(_, _)
CountAndMetadataEach(ctx, tables) ==
    IF tables = <<>> THEN ctx
    ELSE LET tc == get_table_count(ctx, Head(tables))
             tm == get_table_metadata(tc.ctx, Head(tables))
         IN  CountAndMetadataEach(tm.ctx, Tail(tables))

\* pages/4_ Table_Views.py:88-118
TableViewsBody(ctx) ==
    LET lt == list_tables(ctx)
    IN  IF lt.ret = <<>> THEN lt.ctx ELSE CountAndMetadataEach(lt.ctx, lt.ret)

PageBody(page, ctx) ==
    CASE page = "Overview" -> OverviewBody(ctx)
      [] page = "CustomAnalysis" -> CustomAnalysisBody(ctx)
      [] page = "AdvancedAnalytics" -> AdvancedAnalyticsBody(ctx)
      [] page = "TableViews" -> TableViewsBody(ctx)

\* One run of a page script with no button pressed.
PageRender(s, page) ==
    LET c == IF PageGate(s) THEN PageBody(page, NewCtx(cache)) ELSE NewCtx(cache)
    IN  /\ cache' = c.cache
        /\ obs' = Observe(page, s, <<>>, c, <<>>)
        /\ UNCHANGED <<keys, analytics, views, accessVars, sessionVars, statsVars>>

HistoryError(q, msg) ==
    [query |-> q, timestamp |-> now, status |-> "error", error |-> msg]
HistorySuccess(q, n) ==
    [query |-> q, timestamp |-> now, rows |-> n, status |-> "success"]
HistorySaved(q) == [query |-> q, timestamp |-> now]

\* the "except Exception" clause around the call: taken when execute_query raises,
\* which shows as a status that is none of the three it returns
Raised(r) == Head(r.status) \notin {"success", "Error:",
                                    "Query executed successfully. Rows affected:"}

\* pages/Custom_Analysis.py:135-239  the history after Execute Query returned r
HistoryAfterExecute(h, q, r) ==
    IF Raised(r) THEN Append(h, HistoryError(q, "raised"))
    ELSE IF r.status = StatusSuccess /\ ~IsEmptyFrame(r.df)
      THEN Append(h, HistorySuccess(q, Len(r.df)))
    ELSE h

\* pages/Custom_Analysis.py:135  page run with Execute Query pressed on text q
CustomExecute(s, q) ==
    LET c == CustomAnalysisBody(NewCtx(cache))
        r == execute_query(q)
        c2 == [Called(c, "execute_query") EXCEPT
                 !.trips = @ + 1, !.unclosed = IF dbUp THEN @ + 1 ELSE @]
        h == HistoryAfterExecute(query_history[s], q, r)
    IN  /\ PageGate(s)
        /\ q # <<>>
        /\ WithinBounds(r.db)
        /\ Len(h) <= MaxHistory
        /\ cache' = c.cache
        /\ db' = r.db
        /\ query_history' = [query_history EXCEPT ![s] = h]
        /\ last_result' =
             [last_result EXCEPT ![s] =
                IF r.status = StatusSuccess /\ ~IsEmptyFrame(r.df)
                THEN [has |-> TRUE, df |-> r.df] ELSE @]
        /\ obs' = Observe("CustomExecute", s, <<q>>, c2,
                          [df |-> r.df, status |-> r.status])
        /\ UNCHANGED <<keys, analytics, views, env, dbUp, now, authenticated, inState, username,
                       db_connected, statsVars>>

\* pages/Custom_Analysis.py:127  page run with Save Query pressed on text q
CustomSave(s, q) ==
    LET c == CustomAnalysisBody(NewCtx(cache))
    IN  /\ PageGate(s)
        /\ q # <<>>
        /\ Len(query_history[s]) < MaxHistory
        /\ cache' = c.cache
        /\ query_history' = [query_history EXCEPT ![s] = Append(@, HistorySaved(q))]
        /\ obs' = Observe("CustomSave", s, <<q>>, c, <<>>)
        /\ UNCHANGED <<keys, analytics, views, accessVars, authenticated, inState, username, db_connected,
                       last_result, statsVars>>

\* list.pop(k) with k counted from 0
pop(h, k) == SubSeq(h, 1, k) \o SubSeq(h, k + 2, Len(h))

\* pages/Custom_Analysis.py:265  page run with Remove pressed on the entry whose
\* index in the history is idx (from 0): pop(len(history_df) - idx - 1)
CustomRemove(s, idx) ==
    LET c == CustomAnalysisBody(NewCtx(cache))
    IN  /\ PageGate(s)
        /\ idx \in 0..(Len(query_history[s]) - 1)
        /\ cache' = c.cache
        /\ query_history' = [query_history EXCEPT ![s] = pop(@, Len(@) - idx - 1)]
        /\ obs' = Observe("CustomRemove", s, <<idx>>, c, <<>>)
        /\ UNCHANGED <<keys, analytics, views, accessVars, authenticated, inState, username,
                       db_connected, last_result, statsVars>>

\* pages/Custom_Analysis.py:269  page run with Clear All History pressed
CustomClearHistory(s) ==
    LET c == CustomAnalysisBody(NewCtx(cache))
    IN  /\ PageGate(s)
        /\ query_history[s] # <<>>
        /\ cache' = c.cache
        /\ query_history' = [query_history EXCEPT ![s] = <<>>]
        /\ obs' = Observe("CustomClearHistory", s, <<>>, c, <<>>)
        /\ UNCHANGED <<keys, analytics, views, accessVars, authenticated, inState, username, db_connected,
                       last_result, statsVars>>

EnvSample ==
    [APP_USERNAME |-> [set |-> TRUE, val |-> "admin"],
     APP_PASSWORD |-> [set |-> TRUE, val |-> "secret"]]

InitApp ==
    /\ env \in {EnvUnset, EnvSample}
    /\ db = [t \in Tables |-> 1..MaxRows]
    /\ keys = KeyColumnUsage
    /\ dbUp = TRUE
    /\ now = 0
    /\ cache = EmptyCache
    /\ InitSessions

Next ==
    \/ DbToggle
    \/ \E s \in Sessions : MainRender(s)
    \/ \E s \in Sessions, u \in Usernames, p \in Passwords : LoginSubmit(s, u, p)
    \/ \E s \in Sessions : Logout(s)
    \/ \E s \in Sessions, page \in ContentPages : PageRender(s, page)

Spec == InitApp /\ [][Next]_vars

CustomSessions == {"s1"}
CustomTexts ==
    { <<"SELECT", "chat_feedback">>,
      <<"SELECT", "1/0">>,
      <<"DELETE", "chat_feedback">>,
      <<"INSERT", "chat_feedback">>,
      <<"SELECT", "chat_feedback", ";", "DELETE", "chat_feedback", "RETURNING">> }
SaveTexts == { <<"SELECT", "chat_feedback">>, <<"SELECT", "1/0">> }

NextCustom ==
    \/ DbToggle
    \/ \E s \in CustomSessions : LoginSubmit(s, "miva_admin", "password")
    \/ \E s \in CustomSessions : PageRender(s, "CustomAnalysis")
    \/ \E s \in CustomSessions, q \in CustomTexts : CustomExecute(s, q)
    \/ \E s \in CustomSessions, q \in SaveTexts : CustomSave(s, q)
    \/ \E s \in CustomSessions, idx \in 0..(MaxHistory - 1) : CustomRemove(s, idx)
    \/ \E s \in CustomSessions : CustomClearHistory(s)

SpecCustom == InitMemo /\ [][NextCustom]_vars

(***************************************************************************)
(* pages/3_Advanced_Analytics.py: Load Data, the filter controls and Apply *)
(* Filters.  A filter setting is the set of row identifiers that pass it.  *)
(***************************************************************************)
AnalyticsLimits == {100}
FilterSettings == SUBSET RowIds

\* the boolean-mask selections of lines 153-186
ApplyFilter(df, F) == SelectSeq(df, LAMBDA r : r \in F)

\* lines 114-122  Load Data pressed on table t with row limit n
LoadData(ctx, a, t, n) ==
    LET df == get_table_data(ctx, t, n)
    IN  [ctx |-> df.ctx,
         a |-> IF ~IsEmptyFrame(df.ret)
               THEN [a EXCEPT !.selected_data = [has |-> TRUE, df |-> df.ret],
                              !.current_table = t]
               ELSE a,
         loaded |-> ~IsEmptyFrame(df.ret)]

\* lines 127-191  the filter section, with Apply Filters pressed or not
Filters(a, F, apply) ==
    IF a.selected_data.has /\ apply
    THEN [a EXCEPT !.filtered_data =
                      [has |-> TRUE, df |-> ApplyFilter(a.selected_data.df, F)],
                   !.filters_applied = TRUE]
    ELSE a

\* lines 194-210  the frame shown and the Data Status metric
DataShown(a) ==
    IF a.filtered_data.has THEN a.filtered_data.df ELSE a.selected_data.df

DataStatus(a) == IF a.filters_applied THEN "Filtered" ELSE "Original"

AnalyticsView(a, loaded) ==
    [has |-> a.selected_data.has, table |-> a.current_table, rows |-> DataShown(a),
     status |-> DataStatus(a), loaded |-> loaded]

\* One run of the page past its authentication check: button is the button
\* pressed ("load", "apply" or "none"), F the setting of the filter controls.
AnalyticsRun(s, op, button, t, n, F) ==
    LET lt == list_tables(NewCtx(cache))
        ld == IF button = "load" THEN LoadData(lt.ctx, analytics[s], t, n)
              ELSE [ctx |-> lt.ctx, a |-> analytics[s], loaded |-> FALSE]
        a2 == Filters(ld.a, F, button = "apply")
    IN  /\ PageGate(s)
        /\ IF lt.ret = <<>>
           THEN /\ cache' = lt.ctx.cache
                /\ analytics' = analytics
                /\ obs' = Observe(op, s, <<t, n, F>>, lt.ctx,
                                  [has |-> FALSE, table |-> "N/A", rows |-> EmptyFrame,
                                   status |-> "stopped", loaded |-> FALSE])
           ELSE /\ cache' = ld.ctx.cache
                /\ analytics' = [analytics EXCEPT ![s] = a2]
                /\ obs' = Observe(op, s, <<t, n, F>>, ld.ctx,
                                  AnalyticsView(a2, ld.loaded))
        /\ UNCHANGED <<keys, views, accessVars, sessionVars, statsVars>>

AnalyticsLoadData(s, t, n) ==
    AnalyticsRun(s, "AnalyticsLoadData", "load", t, n, RowIds)

AnalyticsFilterChange_Reloads(s, F) ==
    /\ analytics[s].selected_data.has
    /\ AnalyticsRun(s, "AnalyticsFilterChange", "load", analytics[s].current_table,
                    100, F)

\* a run caused by moving a filter control; the controls exist once data is loaded
AnalyticsFilterChange(s, F) ==
    /\ analytics[s].selected_data.has
    /\ AnalyticsRun(s, "AnalyticsFilterChange", "none", NoTable, 0, F)

AnalyticsApplyFilters(s, F) ==
    /\ analytics[s].selected_data.has
    /\ AnalyticsRun(s, "AnalyticsApplyFilters", "apply", NoTable, 0, F)

NextAnalytics ==
    \/ DbToggle
    \/ \E t \in {TTL_LONG} : Tick(t)
    \/ \E s \in CustomSessions : LoginSubmit(s, "miva_admin", "password")
    \/ \E s \in CustomSessions : PageRender(s, "AdvancedAnalytics")
    \/ \E s \in CustomSessions, t \in Tables, n \in AnalyticsLimits :
          AnalyticsLoadData(s, t, n)
    \/ \E s \in CustomSessions, F \in FilterSettings : AnalyticsFilterChange(s, F)
    \/ \E s \in CustomSessions, F \in FilterSettings : AnalyticsApplyFilters(s, F)
    \/ \E q \in WriteTexts : CallExecuteQuery(q)

SpecAnalytics == InitMemo /\ [][NextAnalytics]_vars

(***************************************************************************)
(* pages/4_ Table_Views.py: the table buttons, the rows-to-load control    *)
(* and Load Data.                                                          *)
(***************************************************************************)
\* lines 166-177  the bounds and the default given to st.number_input
rows_to_load_control(row_count) ==
    LET max_rows == IF row_count > 0 THEN Min(MAX_ROWS_TO_LOAD, row_count)
                    ELSE MAX_ROWS_TO_LOAD
        default_rows == Min(DEFAULT_ROWS_TO_LOAD, max_rows)
    IN  [min_value |-> MIN_ROWS_TO_LOAD, max_value |-> max_rows,
         value |-> default_rows]

\* st.number_input raises when its value is outside its bounds
NumberInputAccepts(c) == c.min_value <= c.value /\ c.value <= c.max_value

ViewLimits == {MIN_ROWS_TO_LOAD, DEFAULT_ROWS_TO_LOAD}

\* lines 136-137  the row count of the metadata, counted again when it is 0
RowCountOf(ctx, row_count, t) ==
    IF row_count = 0
    THEN LET tc == get_table_count(ctx, t)
         IN  [ctx |-> tc.ctx, row_count |-> tc.ret]
    ELSE [ctx |-> ctx, row_count |-> row_count]

InfoAfterMetadata(md, t) ==
    RowCountOf(list_columns(md.ctx, t).ctx,
               IF md.ret.has THEN md.ret.row_count ELSE 0, t)

\* lines 130-155  metadata, columns and the row count of the selected table
SelectedTableInfo(ctx, t) == InfoAfterMetadata(get_table_metadata(ctx, t), t)

NoControl == [min_value |-> 0, max_value |-> 0, value |-> 0]

ViewsShown(ctx, v, raised, control, loaded, row_count) ==
    [ctx |-> ctx, v |-> v, raised |-> raised, control |-> control, loaded |-> loaded,
     row_count |-> row_count]

\* lines 189-196  the frame is stored when it is not empty
ViewsLoaded(df, v, control, row_count) ==
    IF ~IsEmptyFrame(df.ret)
    THEN ViewsShown(df.ctx, [v EXCEPT !.table_data = [has |-> TRUE, df |-> df.ret]],
                    FALSE, control, TRUE, row_count)
    ELSE ViewsShown(df.ctx, v, FALSE, control, FALSE, row_count)

\* lines 164-196  the control, raising when its value is outside its bounds,
\* and Load Data
ViewsWithControl(info, control, v, button, n) ==
    IF ~NumberInputAccepts(control)
      THEN ViewsShown(info.ctx, v, TRUE, control, FALSE, info.row_count)
    ELSE IF button # "load"
      THEN ViewsShown(info.ctx, v, FALSE, control, FALSE, info.row_count)
    ELSE ViewsLoaded(get_table_data(info.ctx, v.selected_table, n), v, control,
                     info.row_count)

ViewsWithInfo(info, v, button, n) ==
    ViewsWithControl(info, rows_to_load_control(info.row_count), v, button, n)

\* lines 121-196  the part of the page below the table buttons
ViewsSelected(ctx, v, button, n) ==
    IF v.selected_table = NoTable
    THEN ViewsShown(ctx, v, FALSE, NoControl, FALSE, 0)
    ELSE ViewsWithInfo(SelectedTableInfo(ctx, v.selected_table), v, button, n)

SelectTable_KeepsData(v, t) == [v EXCEPT !.selected_table = t]

\* lines 108-114  the button of table t sets selected_table and clears table_data
SelectTable(v, t) ==
    [selected_table |-> t, table_data |-> [has |-> FALSE, df |-> EmptyFrame]]

\* The page past its authentication check: button is the button pressed
\* ("select", "load" or "none"), t the table of the button, n the number
\* entered in the rows-to-load control.
TableViewsPage(lt, v, button, t, n) ==
    IF lt.ret = <<>> THEN ViewsShown(lt.ctx, v, FALSE, NoControl, FALSE, 0)
    ELSE ViewsSelected(CountAndMetadataEach(lt.ctx, lt.ret),
                       IF button = "select" THEN SelectTable(v, t) ELSE v,
                       button, n)

TableViewsRun(s, op, button, t, n) ==
    /\ PageGate(s)
    /\ \E lt \in {list_tables(NewCtx(cache))} :
       \E r \in {TableViewsPage(lt, views[s], button, t, n)} :
         /\ button = "select" => InSeq(t, lt.ret)
         /\ button = "load" =>
               /\ lt.ret # <<>>
               /\ views[s].selected_table # NoTable
               /\ NumberInputAccepts(r.control)
               /\ r.control.min_value <= n /\ n <= r.control.max_value
         /\ cache' = r.ctx.cache
         /\ views' = [views EXCEPT ![s] = r.v]
         /\ obs' = Observe(op, s, <<t, n>>, r.ctx,
                           [raised |-> r.raised, control |-> r.control,
                            loaded |-> r.loaded, row_count |-> r.row_count])
    /\ UNCHANGED <<keys, analytics, accessVars, sessionVars, statsVars>>

\* a run of the page with no button pressed
TableViewsRender(s) == TableViewsRun(s, "TableViewsRender", "none", NoTable, 0)

\* the button of table t pressed
TableViewsSelect(s, t) == TableViewsRun(s, "TableViewsSelect", "select", t, 0)

\* lines 186-196  Load Data pressed with n in the rows-to-load control
TableViewsLoad(s, n) == TableViewsRun(s, "TableViewsLoad", "load", NoTable, n)

InitViews ==
    /\ env = EnvUnset
    /\ db = [t \in Tables |-> IF t = "chat_feedback" THEN 1..MIN_ROWS_TO_LOAD
                              ELSE 1..MaxRows]
    /\ keys = KeyColumnUsage
    /\ dbUp = TRUE
    /\ now = 0
    /\ cache = EmptyCache
    /\ InitSessions

DeleteTexts == {<<"DELETE", "chat_feedback">>}

NextViews ==
    \/ DbToggle
    \/ \E s \in CustomSessions : LoginSubmit(s, "miva_admin", "password")
    \/ \E s \in CustomSessions : TableViewsRender(s)
    \/ \E s \in CustomSessions, t \in Tables : TableViewsSelect(s, t)
    \/ \E s \in CustomSessions, n \in ViewLimits : TableViewsLoad(s, n)
    \/ \E q \in DeleteTexts : CallExecuteQuery(q)

SpecViews == InitViews /\ [][NextViews]_vars

(***************************************************************************)
(* The analyses of a loaded frame: outlier detection over a numeric column *)
(* (pages/3_Advanced_Analytics.py) and the correlation heatmap             *)
(* (utils/visualizations.py).  A column is the sequence of its values in   *)
(* row order; quantiles are kept in quarters and bounds in eighths, which  *)
(* is exact for integer values.                                            *)
(***************************************************************************)
ColumnValues == {1, 3, 6}

RECURSIVE SeqsUpTo(_, _)
SeqsUpTo(S, n) ==
    IF n = 0 THEN {<<>>}
    ELSE LET shorter == SeqsUpTo(S, n - 1)
         IN  shorter \cup {Append(q, x) : q \in {r \in shorter : Len(r) = n - 1},
                                          x \in S}

ColumnSamples == SeqsUpTo(ColumnValues, MaxColumnLen) \ {<<>>}

RECURSIVE Insert(_, _)
Insert(x, sorted) ==
    IF sorted = <<>> THEN <<x>>
    ELSE IF x <= Head(sorted) THEN <<x>> \o sorted
    ELSE <<Head(sorted)>> \o Insert(x, Tail(sorted))

RECURSIVE sort_values(_)
sort_values(col) ==
    IF col = <<>> THEN <<>> ELSE Insert(Head(col), sort_values(Tail(col)))

\* Series.quantile(k/4), times 4: linear interpolation between the two order
\* statistics around position (n - 1) * k / 4
quantile4(col, k) ==
    LET a == sort_values(col)
        h == (Len(col) - 1) * k
        lo == h \div 4
        frac == h % 4
    IN  IF frac = 0 THEN 4 * a[lo + 1]
        ELSE 4 * a[lo + 1] + frac * (a[lo + 2] - a[lo + 1])

IsOutlier_Inclusive(v, lower8, upper8) == 8 * v <= lower8 \/ 8 * v >= upper8

\* lines 384-385  (value < lower_bound) | (value > upper_bound)
IsOutlier(v, lower8, upper8) == 8 * v < lower8 \/ 8 * v > upper8

\* lines 378-385
outlier_detection(col) ==
    LET Q1 == quantile4(col, 1)
        Q3 == quantile4(col, 3)
        IQR == Q3 - Q1
        lower_bound == 2 * Q1 - 3 * IQR
        upper_bound == 2 * Q3 + 3 * IQR
    IN  [Q1 |-> Q1, Q3 |-> Q3, IQR |-> IQR,
         lower_bound |-> lower_bound, upper_bound |-> upper_bound,
         outliers |-> SelectSeq(col, LAMBDA v : IsOutlier(v, lower_bound, upper_bound))]

\* the outlier tab run on a numeric column of the frame shown
OutlierDetection(col) ==
    /\ obs' = [ObsInit EXCEPT !.op = "outlier_detection", !.arg = <<col>>,
                              !.ret = outlier_detection(col)]
    /\ UNCHANGED <<keys, analytics, views, accessVars, cache, sessionVars, statsVars>>

\* The input of a chart builder: absent (None), or a frame with so many numeric
\* columns, other columns and rows.
NoData == [absent |-> TRUE, numeric |-> 0, other |-> 0, rows |-> 0]
ChartInputs ==
    {NoData} \cup [absent : {FALSE}, numeric : 0..MaxNumericCols, other : 0..1,
                   rows : 0..MaxRows]

\* utils/visualizations.py:78  create_heatmap(data)
create_heatmap(data) ==
    IF data.absent THEN "AttributeError"
    ELSE LET numeric_data == [columns |-> data.numeric, rows |-> data.rows]
             empty == numeric_data.columns = 0 \/ numeric_data.rows = 0
         IN  IF empty THEN "None" ELSE "Figure"

CreateHeatmap(data) ==
    /\ obs' = [ObsInit EXCEPT !.op = "create_heatmap", !.arg = <<data>>,
                              !.ret = create_heatmap(data)]
    /\ UNCHANGED <<keys, analytics, views, accessVars, cache, sessionVars, statsVars>>

\* pages/3_Advanced_Analytics.py:319-324  the correlation tab on the frame shown
CorrelationTab(data) ==
    /\ ~data.absent
    /\ obs' = [ObsInit EXCEPT
                 !.op = "CorrelationTab", !.arg = <<data>>,
                 !.ret = IF data.numeric >= 2 /\ create_heatmap(data) = "Figure"
                         THEN "Figure" ELSE "None"]
    /\ UNCHANGED <<keys, analytics, views, accessVars, cache, sessionVars, statsVars>>

NextCharts ==
    \/ \E col \in ColumnSamples : OutlierDetection(col)
    \/ \E data \in ChartInputs : CreateHeatmap(data)
    \/ \E data \in ChartInputs : CorrelationTab(data)

SpecCharts == InitMemo /\ [][NextCharts]_vars

(***************************************************************************)
(* app_enhanced.py: the single-script copy of the dashboard, with its own  *)
(* memoized loaders.  They have no try/except: a failing connection or     *)
(* query raises out of the loader, and nothing is stored for the call.     *)
(***************************************************************************)
ReturnOk(ctx, v) == [ctx |-> ctx, ret |-> v, raised |-> FALSE]
Raise(ctx) == [ctx |-> ctx, ret |-> EmptyFrame, raised |-> TRUE]

\* app_enhanced.py:120  load_table_data(table_name, limit=None); limit 0 is None
load_table_data(ctx, t, limit) ==
    LET c0 == Called(ctx, "load_table_data")
        e == c0.cache.load_table_data[<<t, limit>>]
    IN  IF Fresh(e, TTL_LONG) THEN ReturnOk(c0, e.val)
        ELSE LET c1 == [c0 EXCEPT !.trips = @ + 1,
                                  !.unclosed = IF dbUp THEN @ + 1 ELSE @]
             IN  IF ~dbUp THEN Raise(c1)
                 ELSE LET v == IF limit # 0 THEN select_limit(db, t, limit)
                               ELSE SortedSeq(db[t])
                      IN  ReturnOk([c1 EXCEPT
                                      !.cache.load_table_data[<<t, limit>>] = Entry(v)],
                                   v)

\* app_enhanced.py:128  execute_custom_query(query): pd.read_sql on any text
execute_custom_query(ctx, q) ==
    LET c0 == Called(ctx, "execute_custom_query")
        e == c0.cache.execute_custom_query[q]
    IN  IF Fresh(e, TTL_LONG) THEN ReturnOk(c0, e.val) @@ [db |-> db]
        ELSE LET c1 == [c0 EXCEPT !.trips = @ + 1,
                                  !.unclosed = IF dbUp THEN @ + 1 ELSE @]
                 r == read_sql(q, db)
             IN  IF ~dbUp \/ r.status # StatusSuccess THEN Raise(c1) @@ [db |-> db]
                 ELSE ReturnOk([c1 EXCEPT !.cache.execute_custom_query[q] = Entry(r.df)],
                               r.df) @@ [db |-> r.db]

\* app_enhanced.py:133  get_table_stats(): a count per table, 0 for a failing count
enhanced_get_table_stats(ctx) ==
    LET c0 == Called(ctx, "enhanced_get_table_stats")
        e == c0.cache.enhanced_get_table_stats
    IN  IF Fresh(e, TTL_LONG) THEN ReturnOk(c0, e.val)
        ELSE LET c1 == [c0 EXCEPT !.trips = @ + 1,
                                  !.unclosed = IF dbUp THEN @ + 1 ELSE @]
                 v == [t \in Tables |-> Cardinality(db[t])]
             IN  IF ~dbUp THEN Raise(c1)
                 ELSE ReturnOk([c1 EXCEPT !.cache.enhanced_get_table_stats = Entry(v)],
                               v)

EnhancedPages == {"EnhancedOverview", "EnhancedChatFeedback", "EnhancedChatSessions"}

\* What a run of the script showed: whether an exception left the script, and
\* the row total of the page's table when it was reached.
Shown(ctx, raised, n) == [ctx |-> ctx, raised |-> raised, rows |-> n, charts |-> {}]

OverviewCharts_WhateverTheRows(t, df) ==
    {"line" : c \in {i \in DOMAIN Columns[t] : Columns[t][i] = "created_at"}}
    \cup {"pie" : c \in {i \in DOMAIN Columns[t] : Columns[t][i] = "feedback_type"}}

\* app_enhanced.py:237-253  the line chart needs column created_at and a row,
\* the pie chart column feedback_type and a row
OverviewCharts(t, df) ==
    IF Len(df) > 0 THEN OverviewCharts_WhateverTheRows(t, df) ELSE {}

\* app_enhanced.py:199  show_overview
show_overview(ctx) ==
    LET st == enhanced_get_table_stats(ctx)
        df == load_table_data(st.ctx, "chat_feedback", 0)
    IN  IF st.raised THEN Shown(st.ctx, TRUE, 0)
        ELSE IF df.raised THEN Shown(df.ctx, TRUE, 0)
        ELSE [Shown(df.ctx, FALSE, Len(df.ret)) EXCEPT
                !.charts = OverviewCharts("chat_feedback", df.ret)]

\* app_enhanced.py:255 and 280  show_chat_feedback, show_chat_sessions
show_table(ctx, t) ==
    LET df == load_table_data(ctx, t, 0)
    IN  IF df.raised THEN Shown(df.ctx, TRUE, 0)
        ELSE Shown(df.ctx, FALSE, Len(df.ret))

main_dashboard(ctx, page) ==
    CASE page = "EnhancedOverview" -> show_overview(ctx)
      [] page = "EnhancedChatFeedback" -> show_table(ctx, "chat_feedback")
      [] page = "EnhancedChatSessions" -> show_table(ctx, "chat_sessions")

\* app_enhanced.py:403-410  a run of the script with the page selected
EnhancedRender(s, page) ==
    LET r == IF inState[s] /\ authenticated[s]
             THEN main_dashboard(NewCtx(cache), page)
             ELSE Shown(NewCtx(cache), FALSE, 0)
    IN  /\ inState' = [inState EXCEPT ![s] = TRUE]
        /\ cache' = r.ctx.cache
        /\ obs' = Observe(page, s, <<>>, r.ctx,
                          [raised |-> r.raised, rows |-> r.rows, charts |-> r.charts])
        /\ UNCHANGED <<keys, analytics, views, accessVars, authenticated, username,
                       db_connected, query_history, last_result, statsVars>>

\* app_enhanced.py:357-369  Execute Query of show_custom_analysis: the loader's
\* exception is caught by the page and shown as an error
EnhancedExecute(s, q) ==
    LET r == execute_custom_query(NewCtx(cache), q)
    IN  /\ inState[s] /\ authenticated[s]
        /\ WithinBounds(r.db)
        /\ cache' = r.ctx.cache
        /\ db' = r.db
        /\ obs' = Observe("EnhancedCustomAnalysis", s, <<q>>,
                          [r.ctx EXCEPT !.errors =
                              IF r.raised THEN @ \cup {"execute_custom_query"} ELSE @],
                          [raised |-> FALSE, rows |-> Len(r.ret)])
        /\ UNCHANGED <<keys, analytics, views, env, dbUp, now, sessionVars, statsVars>>

\* app_enhanced.py:112-117  Login pressed on the login page
EnhancedLogin(s, u, p) ==
    /\ ~(inState[s] /\ authenticated[s])
    /\ inState' = [inState EXCEPT ![s] = TRUE]
    /\ authenticated' = [authenticated EXCEPT ![s] = check_credentials(u, p)]
    /\ obs' = Observe("EnhancedLogin", s, <<u, p>>, NewCtx(cache),
                      check_credentials(u, p))
    /\ UNCHANGED <<keys, analytics, views, accessVars, cache, username, db_connected,
                   query_history, last_result, statsVars>>

\* app_enhanced.py:176-178  Logout pressed
EnhancedLogout(s) ==
    /\ inState[s] /\ authenticated[s]
    /\ authenticated' = [authenticated EXCEPT ![s] = FALSE]
    /\ obs' = Observe("EnhancedLogout", s, <<>>, NewCtx(cache), <<>>)
    /\ UNCHANGED <<keys, analytics, views, accessVars, cache, inState, username,
                   db_connected, query_history, last_result, statsVars>>

NextEnhanced ==
    \/ DbToggle
    \/ \E t \in {TTL_LONG} : Tick(t)
    \/ \E s \in CustomSessions, p \in {"password", "secret"} :
          EnhancedLogin(s, "miva_admin", p)
    \/ \E s \in CustomSessions : EnhancedLogout(s)
    \/ \E s \in CustomSessions, page \in EnhancedPages : EnhancedRender(s, page)
    \/ \E s \in CustomSessions, q \in EnhancedTexts : EnhancedExecute(s, q)
    \/ \E q \in WriteTexts : CallExecuteQuery(q)

SpecEnhanced == InitMemo /\ [][NextEnhanced]_vars

(***************************************************************************)
(* Sessions side by side.  st.session_state is one store per browser       *)
(* session; the memoization cache and the database are shared.             *)
(***************************************************************************)
SessionTexts == { <<"SELECT", "chat_feedback">> }
SessionTables == {"chat_feedback"}
SessionLimits == {MIN_ROWS_TO_LOAD}

\* two sessions of the main application
NextSessions ==
    \/ \E s \in Sessions, p \in {"password", "secret"} : LoginSubmit(s, "miva_admin", p)
    \/ \E s \in Sessions : Logout(s)
    \/ \E s \in Sessions, q \in SessionTexts : CustomExecute(s, q)
    \/ \E s \in Sessions, t \in SessionTables, n \in AnalyticsLimits :
          AnalyticsLoadData(s, t, n)
    \/ \E s \in Sessions, t \in SessionTables : TableViewsSelect(s, t)
    \/ \E s \in Sessions, n \in SessionLimits : TableViewsLoad(s, n)

SpecSessions == InitViews /\ [][NextSessions]_vars

EnhancedSessions == Sessions \ CustomSessions

\* one session of the main application and one of app_enhanced.py
NextLogout ==
    \/ DbToggle
    \/ \E s \in CustomSessions : LoginSubmit(s, "miva_admin", "password")
    \/ \E s \in CustomSessions : Logout(s)
    \/ \E s \in CustomSessions, q \in SessionTexts : CustomExecute(s, q)
    \/ \E s \in CustomSessions, t \in SessionTables, n \in AnalyticsLimits :
          AnalyticsLoadData(s, t, n)
    \/ \E s \in CustomSessions, t \in Tables : TableViewsSelect(s, t)
    \/ \E s \in CustomSessions, n \in SessionLimits : TableViewsLoad(s, n)
    \/ \E s \in EnhancedSessions : EnhancedLogin(s, "miva_admin", "password")
    \/ \E s \in EnhancedSessions : EnhancedLogout(s)
    \/ \E s \in EnhancedSessions, q \in EnhancedTexts : EnhancedExecute(s, q)

SpecLogout == InitViews /\ [][NextLogout]_vars

(***************************************************************************)
(* get_table_stats step by step, for sessions running concurrently.        *)
(* st.cache_data looks the entry up; on a miss it takes the compute lock   *)
(* of the entry, looks it up again, and only then runs the function and    *)
(* stores its result.                                                      *)
(***************************************************************************)
LockAvailable_NoLock(s) == TRUE

\* the compute lock of @st.cache_data on get_table_stats
LockAvailable(s) == lock = None

StatsObs(s) == [ObsInit EXCEPT !.op = "get_table_stats", !.sess = s]

StatsReturn(s, v) ==
    [acc EXCEPT ![s] = [tables |-> <<>>, total |-> 0, size |-> 0, done |-> TRUE,
                        ret |-> v]]

\* first lookup of the entry
StatsBegin(s) ==
    /\ pc[s] = "idle"
    /\ IF Fresh(cache.get_table_stats, TTL_LONG)
       THEN /\ acc' = StatsReturn(s, cache.get_table_stats.val)
            /\ pc' = pc
       ELSE /\ pc' = [pc EXCEPT ![s] = "wait"]
            /\ acc' = acc
    /\ obs' = StatsObs(s)
    /\ UNCHANGED <<keys, analytics, views, accessVars, cache, sessionVars, lock, scans>>

\* lock taken, second lookup, then database.py:140-166: connect, the three
\* catalog queries and list_tables()
StatsAcquire(s) ==
    /\ pc[s] = "wait"
    /\ LockAvailable(s)
    /\ obs' = StatsObs(s)
    /\ IF Fresh(cache.get_table_stats, TTL_LONG)
       THEN /\ acc' = StatsReturn(s, cache.get_table_stats.val)
            /\ pc' = [pc EXCEPT ![s] = "idle"]
            /\ UNCHANGED <<cache, lock, scans>>
       ELSE IF ~dbUp
       THEN /\ acc' = StatsReturn(s, NoStats)
            /\ pc' = [pc EXCEPT ![s] = "idle"]
            /\ cache' = [cache EXCEPT !.get_table_stats = Entry(NoStats)]
            /\ UNCHANGED <<lock, scans>>
       ELSE LET lt == list_tables(NewCtx(cache))
            IN  /\ lock' = s
                /\ pc' = [pc EXCEPT ![s] = "scan"]
                /\ cache' = lt.ctx.cache
                /\ scans' = scans + 1
                /\ acc' = [acc EXCEPT ![s] =
                             [tables |-> lt.ret, total |-> 0,
                              size |-> DatabaseSize(db), done |-> @.done,
                              ret |-> @.ret]]
    /\ UNCHANGED <<keys, analytics, views, accessVars, sessionVars>>

\* database.py:167-172  one iteration of the count loop
StatsCount(s) ==
    /\ pc[s] = "scan"
    /\ acc[s].tables # <<>>
    /\ acc' = [acc EXCEPT ![s].tables = Tail(@),
                          ![s].total = IF dbUp
                                       THEN @ + Cardinality(db[Head(acc[s].tables)])
                                       ELSE @]
    /\ obs' = StatsObs(s)
    /\ UNCHANGED <<keys, analytics, views, accessVars, cache, sessionVars, pc, lock, scans>>

\* database.py:173-178  the result is returned, stored, and the lock released
StatsFinish(s) ==
    LET v == [has |-> TRUE,
              table_count |-> Cardinality(Tables),
              total_columns |-> SumOver([t \in Tables |-> Len(Columns[t])], Tables),
              db_size |-> acc[s].size,
              total_records |-> acc[s].total]
    IN  /\ pc[s] = "scan"
        /\ acc[s].tables = <<>>
        /\ cache' = [cache EXCEPT !.get_table_stats = Entry(v)]
        /\ acc' = StatsReturn(s, v)
        /\ pc' = [pc EXCEPT ![s] = "idle"]
        /\ lock' = IF lock = s THEN None ELSE lock
        /\ obs' = StatsObs(s)
        /\ UNCHANGED <<keys, analytics, views, accessVars, sessionVars, scans>>

StatsInstants == {t \in Instants : t < TTL_LONG}

NextStats ==
    \/ DbToggle
    \/ \E t \in StatsInstants : Tick(t)
    \/ \E q \in WriteTexts : CallExecuteQuery(q)
    \/ \E s \in Sessions : StatsBegin(s)
    \/ \E s \in Sessions : StatsAcquire(s)
    \/ \E s \in Sessions : StatsCount(s)
    \/ \E s \in Sessions : StatsFinish(s)

SpecStats == InitMemo /\ [][NextStats]_vars

(***************************************************************************)
(* Properties of the credential check.                                     *)
(***************************************************************************)
ConfiguredUsername ==
    IF env["APP_USERNAME"].set THEN env["APP_USERNAME"].val ELSE "miva_admin"
ConfiguredPassword ==
    IF env["APP_PASSWORD"].set THEN env["APP_PASSWORD"].val ELSE "password"

\* C2: check_authentication returns true exactly for the configured pair (the
\* environment's values, or the built-in pair they default to), false for every
\* other pair, and always returns a boolean; check_credentials, which compares
\* digests, returns true exactly for its built-in pair.
C2_AuthExactlyConfiguredPair ==
    /\ obs.op = "check_authentication" =>
         /\ obs.ret \in BOOLEAN
         /\ obs.ret <=> (obs.arg[1] = ConfiguredUsername
                         /\ obs.arg[2] = ConfiguredPassword)
    /\ obs.op = "check_credentials" =>
         /\ obs.ret \in BOOLEAN
         /\ obs.ret <=> (obs.arg[1] = "miva_admin" /\ obs.arg[2] = "password")

C2_Witness ==
    /\ obs.op = "check_authentication"
    /\ env["APP_USERNAME"].set /\ env["APP_PASSWORD"].set
    /\ obs.arg = <<"admin", "secret">>
    /\ obs.ret = TRUE

\* C3: with APP_USERNAME and APP_PASSWORD both unset, the credential check
\* returns false for every submitted pair.
C3_NoLoginWithoutConfiguration ==
    (/\ obs.op = "check_authentication"
     /\ ~env["APP_USERNAME"].set
     /\ ~env["APP_PASSWORD"].set) => obs.ret = FALSE

(***************************************************************************)
(* Properties of execute_query.                                            *)
(***************************************************************************)
RECURSIVE FirstWord(_)
FirstWord(text) ==
    IF text = <<>> THEN ""
    ELSE IF Head(text) = WS THEN FirstWord(Tail(text))
    ELSE Head(text)

BeginsWithSelect(text) == FirstWord(text) \in {"SELECT", "select"}

\* C1: the database changes only in a step that calls execute_query with a text
\* that, trimmed and ignoring case, does not start with SELECT.
C1_WritesOnlyByNonSelect ==
    [][db' # db =>
         (obs'.op = "execute_query" /\ ~BeginsWithSelect(obs'.arg[1]))]_vars

\* C6: execute_query picks its branch by the trimmed, case-insensitive SELECT
\* prefix alone: a SELECT text yields "success" with the rows or an error; any
\* other text yields the affected-row count with an empty frame, committed, or an
\* error; an error has an empty frame and a status that begins "Error:".
C6_ExecuteQueryBranches ==
    obs.op = "execute_query" =>
      LET q == obs.arg[1]
          st == obs.ret.status
          df == obs.ret.df
      IN  /\ Head(st) \in {"success", "Error:",
                           "Query executed successfully. Rows affected:"}
          /\ BeginsWithSelect(q) => Head(st) \in {"success", "Error:"}
          /\ ~BeginsWithSelect(q) =>
               Head(st) \in {"Error:", "Query executed successfully. Rows affected:"}
          /\ Head(st) # "success" => IsEmptyFrame(df)
          /\ ~dbUp => Head(st) = "Error:"
          /\ \A t \in Tables :
               /\ (q = <<"DELETE", t>> /\ Head(st) # "Error:") => db[t] = {}
               /\ (q = <<"INSERT", t>> /\ Head(st) # "Error:") =>
                     (st[2] = 1 /\ db[t] # {})
               /\ (q = <<WS, "select", t, WS>> /\ st = StatusSuccess) =>
                     df = SortedSeq(db[t])

C6_Witness ==
    /\ obs.op = "execute_query"
    /\ obs.arg[1] = <<WS, "select", "chat_feedback", WS>>
    /\ obs.ret.status = StatusSuccess
    /\ ~IsEmptyFrame(obs.ret.df)

(***************************************************************************)
(* Properties of the memoized read operations.                             *)
(***************************************************************************)
\* C7: get_table_data(t, N) returns at most N rows, and an empty frame when the
\* query fails.
C7_AtMostLimitRows ==
    obs.op = "get_table_data" =>
      /\ Len(obs.ret) <= obs.arg[2]
      /\ obs.errors # {} => IsEmptyFrame(obs.ret)

C7_Witness ==
    /\ obs.op = "get_table_data"
    /\ obs.trips = 1
    /\ dbUp
    /\ obs.arg[2] > 0
    /\ Len(obs.ret) = obs.arg[2]
    /\ Cardinality(db[obs.arg[1]]) > obs.arg[2]

MemoOps == {"list_tables", "list_columns", "get_table_data", "get_table_count",
            "get_table_stats", "get_table_metadata"}

EntryOf(c, op, arg) ==
    CASE op = "list_tables" -> c.list_tables
      [] op = "list_columns" -> c.list_columns[arg[1]]
      [] op = "get_table_data" -> c.get_table_data[<<arg[1], arg[2]>>]
      [] op = "get_table_count" -> c.get_table_count[arg[1]]
      [] op = "get_table_stats" -> c.get_table_stats
      [] op = "get_table_metadata" -> c.get_table_metadata[arg[1]]

WindowOf(op) ==
    IF op \in {"get_table_data", "get_table_count"} THEN 60 ELSE 300

InWindow(e, op) == e.has /\ now - e.at < WindowOf(op)

\* C8: a call repeated within the window of its entry returns the value the
\* computing call returned and stored, opens no connection and leaves the cache
\* as it is; execute_query never touches the cache, so this holds across writes.
C8_RepeatWithinWindowServedFromCache ==
    [][/\ (obs'.op \in MemoOps /\ InWindow(EntryOf(cache, obs'.op, obs'.arg), obs'.op))
          => /\ obs'.ret = EntryOf(cache, obs'.op, obs'.arg).val
             /\ obs'.trips = 0
             /\ cache' = cache
       /\ (obs'.op \in MemoOps /\ ~InWindow(EntryOf(cache, obs'.op, obs'.arg), obs'.op))
          => EntryOf(cache', obs'.op, obs'.arg).val = obs'.ret
       /\ obs'.op = "execute_query" => cache' = cache]_vars

\* a count served from the cache although a committed write has changed the table
C8_Witness ==
    /\ obs.op = "get_table_count"
    /\ obs.trips = 0
    /\ dbUp
    /\ cache.get_table_count[obs.arg[1]].has
    /\ obs.ret # Cardinality(db[obs.arg[1]])

\* The value a read operation computes from the database as it is now.
FreshValueOk(op, arg, ret) ==
    CASE op = "list_tables" -> ret = (IF dbUp THEN TableList ELSE <<>>)
      [] op = "get_table_count" ->
           ret = (IF dbUp THEN Cardinality(db[arg[1]]) ELSE 0)
      [] op = "get_table_data" ->
           ret = (IF dbUp
                  THEN SubSeq(SortedSeq(db[arg[1]]), 1,
                              Min(arg[2], Cardinality(db[arg[1]])))
                  ELSE <<>>)
      [] op = "get_table_metadata" ->
           IF dbUp THEN ret.has /\ ret.size = 1 + Cardinality(db[arg[1]])
           ELSE ~ret.has
      [] OTHER -> TRUE

\* C9: once the window of an entry has elapsed (or there is none), the next call
\* queries the database, returns the value computed now and stores it with the
\* current time, so that later calls see the refreshed value.
C9_RefreshAfterWindow ==
    [][(obs'.op \in MemoOps /\ ~InWindow(EntryOf(cache, obs'.op, obs'.arg), obs'.op))
          => /\ obs'.trips >= 1
             /\ FreshValueOk(obs'.op, obs'.arg, obs'.ret)
             /\ EntryOf(cache', obs'.op, obs'.arg) =
                  [has |-> TRUE, at |-> now, val |-> obs'.ret]]_vars

\* a count recomputed at its expiry time, differing from the count that the
\* metadata entry computed at time 0 still holds
C9_Witness ==
    /\ obs.op = "get_table_count"
    /\ obs.trips = 1
    /\ now = TTL_SHORT
    /\ cache.get_table_metadata[obs.arg[1]].has
    /\ cache.get_table_metadata[obs.arg[1]].at = 0
    /\ cache.get_table_count[obs.arg[1]].at = TTL_SHORT
    /\ obs.ret # cache.get_table_metadata[obs.arg[1]].val.row_count

\* The value a read operation returns when it fails.
SoftValue(op) ==
    CASE op = "list_tables" -> <<>>
      [] op = "list_columns" -> EmptyFrame
      [] op = "get_table_data" -> EmptyFrame
      [] op = "get_table_count" -> 0
      [] op = "get_table_stats" -> NoStats
      [] op = "get_table_metadata" -> NoMetadata

C28_FallbackIsCached ==
    [][/\ (obs'.op \in MemoOps /\ obs'.trips >= 1 /\ ~dbUp) =>
            EntryOf(cache', obs'.op, obs'.arg) =
               [has |-> TRUE, at |-> now, val |-> SoftValue(obs'.op)]
       /\ (/\ obs'.op \in MemoOps
           /\ InWindow(EntryOf(cache, obs'.op, obs'.arg), obs'.op)
           /\ EntryOf(cache, obs'.op, obs'.arg).val = SoftValue(obs'.op)) =>
            /\ obs'.ret = SoftValue(obs'.op)
            /\ obs'.trips = 0
            /\ obs'.errors = {}]_vars

\* the table list asked again at a later instant of the window, with the
\* database reachable: the empty list stored by the failed call comes back
C28_Witness ==
    /\ obs.op = "list_tables"
    /\ dbUp
    /\ obs.trips = 0
    /\ obs.ret = <<>>
    /\ now > cache.list_tables.at

\* C13: when an operation of the access layer returns, every connection it
\* opened has been closed by it, on success and on failure alike.
C13_NoConnectionLeftOpen ==
    obs.op \in MemoOps \cup {"test_connection", "execute_query"} => obs.unclosed = 0

\* C17: list_columns returns one descriptor per column of the table, in
\* ordinal-position order, flagged exactly when the column belongs to the
\* table's primary key, whatever other key constraints the column is part of.
C17_OneDescriptorPerColumn ==
    (obs.op = "list_columns" /\ obs.ret # EmptyFrame) =>
        LET t == obs.arg[1]
        IN  /\ Len(obs.ret) = Len(Columns[t])
            /\ \A i \in 1..Min(Len(obs.ret), Len(Columns[t])) :
                  /\ obs.ret[i].ordinal_position = i
                  /\ obs.ret[i].column_name = Columns[t][i]
                  /\ obs.ret[i].is_primary_key <=>
                        \E k \in keys : /\ k.table = t
                                         /\ k.column = Columns[t][i]
                                         /\ k.type = "PRIMARY KEY"

\* C18: the total_records that get_table_stats computes is the sum of the row
\* counts of all the tables the schema has at the time of the call.
C18_TotalRecordsIsSumOfCounts ==
    (obs.op = "get_table_stats" /\ obs.trips >= 1 /\ obs.ret.has) =>
        obs.ret.total_records = SumOver([t \in Tables |-> Cardinality(db[t])], Tables)

\* C12: in both copies of the application a failing database call is handled
\* where it is made: no run of a page ends with an exception leaving the script,
\* and the page shows its table as empty.
C12_NoErrorLeavesThePage ==
    obs.op \in EnhancedPages => ~obs.ret.raised

FeedbackViews == {"EnhancedOverview", "EnhancedChatFeedback"}

C4_PagesCallOnlyWhenAuthenticated ==
    [][/\ (obs'.op \in ContentPages /\ obs'.calls # {}) => authenticated[obs'.sess]
       /\ (obs'.op \in ContentPages /\ ~authenticated[obs'.sess])
            => (obs'.calls = {} /\ obs'.trips = 0 /\ cache' = cache)
       /\ \A s \in Sessions :
            (~authenticated[s] /\ authenticated'[s])
              => /\ obs'.op = "LoginSubmit"
                 /\ obs'.sess = s
                 /\ obs'.ret = TRUE
                 /\ obs'.arg = <<ConfiguredUsername, ConfiguredPassword>>]_vars

\* a page run that stopped at the gate in a session that had been initialised
\* by the main script, while the other session is logged in
C4_Witness ==
    /\ obs.op \in ContentPages
    /\ inState[obs.sess]
    /\ ~authenticated[obs.sess]
    /\ obs.calls = {}
    /\ \E s \in Sessions : authenticated[s] /\ cache.list_tables.has

\* C21: the result of a login attempt is a function of the submitted pair and
\* the configuration alone, whatever happened before it, and an attempt whose
\* check returns false changes neither authenticated, username nor
\* db_connected, nor anything outside the session.
C21_CredentialCheckStateless ==
    [][obs'.op = "LoginSubmit" =>
         /\ obs'.ret = (obs'.arg = <<ConfiguredUsername, ConfiguredPassword>>)
         /\ obs'.ret = FALSE =>
               /\ authenticated' = authenticated
               /\ username' = username
               /\ db_connected' = db_connected
               /\ cache' = cache
               /\ obs'.trips = 0]_vars

\* a refused attempt with the right user name in a session that has logged out
\* before, while the other session is logged in
C21_Witness ==
    /\ obs.op = "LoginSubmit"
    /\ obs.ret = FALSE
    /\ obs.arg[1] = ConfiguredUsername
    /\ username[obs.sess] = None
    /\ cache.get_table_stats.has
    /\ \E s \in Sessions \ {obs.sess} : authenticated[s]

\* C24: in the main app db_connected is true only in an authenticated session,
\* username is set exactly in an authenticated session, and a login whose check
\* passes authenticates the session whether or not the connection test
\* succeeds, db_connected telling which.
C24_LoginStateConsistent ==
    /\ \A s \in Sessions :
          /\ db_connected[s] => authenticated[s]
          /\ (username[s] # None) <=> authenticated[s]
    /\ (obs.op = "LoginSubmit" /\ obs.ret = TRUE) =>
          /\ authenticated[obs.sess]
          /\ username[obs.sess] = obs.arg[1]
          /\ db_connected[obs.sess] <=> dbUp

\* a login accepted while the database refuses connections
C24_Witness ==
    /\ obs.op = "LoginSubmit"
    /\ obs.ret = TRUE
    /\ ~dbUp
    /\ authenticated[obs.sess]
    /\ ~db_connected[obs.sess]

\* C25: Remove on an entry of the Query History removes exactly that entry:
\* afterwards the history is the old one without the entry at the position the
\* button belongs to, the other entries in their old order.
C25_RemoveRemovesThatEntry ==
    [][obs'.op = "CustomRemove" =>
         query_history'[obs'.sess] = pop(query_history[obs'.sess], obs'.arg[1])]_vars

SessionKeys(s) ==
    <<authenticated[s], username[s], query_history[s], last_result[s],
      analytics[s], views[s]>>

\* C22: a step taken in one session (login, logout, table selection, loading,
\* query execution) leaves authenticated, username, the loaded result sets and
\* the query history of every other session as they were.
C22_SessionsIsolated ==
    [][\A s \in Sessions :
         obs'.sess # s =>
            /\ authenticated'[s] = authenticated[s]
            /\ username'[s] = username[s]
            /\ db_connected'[s] = db_connected[s]
            /\ query_history'[s] = query_history[s]
            /\ last_result'[s] = last_result[s]
            /\ analytics'[s] = analytics[s]
            /\ views'[s] = views[s]]_vars

\* one session logs out while the other is logged in with a history, a last
\* result and loaded tables of its own
C22_Witness ==
    /\ obs.op = "Logout"
    /\ \E s \in Sessions \ {obs.sess} :
          /\ authenticated[s]
          /\ username[s] = "miva_admin"
          /\ query_history[s] # <<>>
          /\ last_result[s].has
          /\ analytics[s].selected_data.has
          /\ views[s].table_data.has
          /\ query_history[obs.sess] = <<>>

\* C29: Logout changes only authenticated, username and db_connected of its
\* session (app_enhanced.py: only authenticated); the query history, the last
\* result, the selected table and the loaded result sets stay as they were.
C29_LogoutKeepsSessionData ==
    [][obs'.op \in {"Logout", "EnhancedLogout"} =>
         /\ ~authenticated'[obs'.sess]
         /\ obs'.op = "Logout" =>
               (username'[obs'.sess] = None /\ ~db_connected'[obs'.sess])
         /\ obs'.op = "EnhancedLogout" =>
               (username' = username /\ db_connected' = db_connected)
         /\ query_history' = query_history
         /\ last_result' = last_result
         /\ analytics' = analytics
         /\ views' = views
         /\ inState' = inState
         /\ cache' = cache
         /\ db' = db]_vars

\* a logout of a session that holds a history, a last result, a selected table
\* and loaded data
C29_Witness ==
    /\ obs.op = "Logout"
    /\ ~authenticated[obs.sess]
    /\ query_history[obs.sess] # <<>>
    /\ last_result[obs.sess].has
    /\ analytics[obs.sess].selected_data.has
    /\ views[obs.sess].selected_table = "chat_feedback"
    /\ views[obs.sess].table_data.has
    /\ \E s \in EnhancedSessions : authenticated[s]

\* C5: a query that fails in the database when executed from the custom-query
\* page has an error status and an empty result, and exactly one entry with
\* status "error" and the driver's text is appended to the session's history.
C5_FailedQueryRecordedInHistory ==
    [][(obs'.op = "CustomExecute" /\ Head(obs'.ret.status) = "Error:") =>
         /\ IsEmptyFrame(obs'.ret.df)
         /\ query_history'[obs'.sess] =
              Append(query_history[obs'.sess],
                     [query |-> obs'.arg[1], timestamp |-> now,
                      status |-> "error", error |-> obs'.ret.status[2]])]_vars

\* C16: every entry of a session's query history holds a query text, a
\* timestamp, a status, and a row count or an error.
C16_HistoryEntriesComplete ==
    \A s \in Sessions : \A i \in DOMAIN query_history[s] :
        LET e == query_history[s][i]
        IN  /\ {"query", "timestamp", "status"} \subseteq DOMAIN e
            /\ ("rows" \in DOMAIN e \/ "error" \in DOMAIN e)

(***************************************************************************)
(* Properties of the Advanced Analytics page.                              *)
(***************************************************************************)
FilterOps == {"AnalyticsFilterChange", "AnalyticsApplyFilters"}

\* What a run caused by a filter control or by Apply Filters does to the data:
\* the loaded result set is kept, Apply Filters stores the rows of it that pass
\* the controls, and no table rows are fetched.
FilterRunInMemory(s, F) ==
    /\ "get_table_data" \notin obs'.calls
    /\ db' = db
    /\ analytics'[s].selected_data = analytics[s].selected_data
    /\ (obs'.op = "AnalyticsApplyFilters" /\ obs'.ret.status # "stopped") =>
          /\ analytics'[s].filtered_data.has
          /\ analytics'[s].filtered_data.df = ApplyFilter(analytics[s].selected_data.df, F)
    /\ obs'.op = "AnalyticsFilterChange" =>
          analytics'[s].filtered_data = analytics[s].filtered_data

\* C14 as stated: a run caused by a filter control or by Apply Filters computes
\* the filtered set from the result set held in the session and makes no round
\* trip to the database at all.
C14_FilterRunsNeverQuery ==
    [][obs'.op \in FilterOps =>
         /\ FilterRunInMemory(obs'.sess, obs'.arg[3])
         /\ obs'.trips = 0]_vars

\* C14 amended: such a run computes the filtered set from the result set held
\* in the session and never fetches table rows; it makes no round trip while the
\* entry of list_tables is within its window, and one catalog query by
\* list_tables once that entry has expired.
C14_FilterRunsFetchNoRows ==
    [][obs'.op \in FilterOps =>
         /\ FilterRunInMemory(obs'.sess, obs'.arg[3])
         /\ obs'.calls = {"list_tables"}
         /\ obs'.trips = IF InWindow(cache.list_tables, "list_tables") THEN 0 ELSE 1]_vars

\* Apply Filters has stored a proper part of the loaded rows, the table having
\* changed in the database since they were loaded
C14_Witness ==
    /\ obs.op = "AnalyticsApplyFilters"
    /\ obs.trips = 0
    /\ analytics[obs.sess].filters_applied
    /\ Len(analytics[obs.sess].filtered_data.df) = 1
    /\ Len(analytics[obs.sess].selected_data.df) = 2
    /\ db[analytics[obs.sess].current_table] = {}

\* C15: a successful Load Data leaves the page in "data loaded", shown as
\* Original; filters_applied turns true only by Apply Filters, and while it is
\* true the filtered set shown is the filtered part of the data set now loaded.
C15_LoadThenFilter ==
    [][/\ (obs'.op = "AnalyticsLoadData" /\ obs'.ret.loaded) =>
            /\ analytics'[obs'.sess].selected_data.has
            /\ ~analytics'[obs'.sess].filters_applied
            /\ obs'.ret.status = "Original"
            /\ obs'.ret.rows = analytics'[obs'.sess].selected_data.df
       /\ \A s \in Sessions :
            (~analytics[s].filters_applied /\ analytics'[s].filters_applied) =>
               (obs'.op = "AnalyticsApplyFilters" /\ obs'.sess = s)]_vars

\* C26: the data the page shows is made only of rows of the selected_data now
\* loaded, and the Current Table label names the table they were loaded from.
C26_ShownRowsAreLoadedRows ==
    (obs.op \in {"AnalyticsLoadData", "AnalyticsFilterChange", "AnalyticsApplyFilters"}
       /\ obs.ret.has) =>
      /\ obs.ret.table = analytics[obs.sess].current_table
      /\ \A i \in DOMAIN obs.ret.rows :
            InSeq(obs.ret.rows[i], analytics[obs.sess].selected_data.df)

(***************************************************************************)
(* Properties of the Table Views page.                                     *)
(***************************************************************************)
ViewsOps == {"TableViewsRender", "TableViewsSelect", "TableViewsLoad"}

\* C27: selecting a table sets selected_table and resets table_data to None;
\* Load Data stores the frame that get_table_data returned for the selected
\* table when it is not empty and leaves table_data as it is otherwise; nothing
\* else writes the two keys.  So a table_data held in the session was loaded
\* from the table now selected.
C27_TableDataOfSelectedTable ==
    [][\A s \in Sessions :
         LET v == views[s]
             w == views'[s]
         IN  /\ (obs'.op = "TableViewsSelect" /\ obs'.sess = s) =>
                   /\ w.selected_table = obs'.arg[1]
                   /\ ~w.table_data.has
             /\ (obs'.op = "TableViewsLoad" /\ obs'.sess = s) =>
                   /\ w.selected_table = v.selected_table
                   /\ "get_table_data" \in obs'.calls
                   /\ LET e == cache'.get_table_data[<<v.selected_table, obs'.arg[2]>>]
                      IN  /\ e.has
                          /\ w.table_data = IF IsEmptyFrame(e.val) THEN v.table_data
                                             ELSE [has |-> TRUE, df |-> e.val]
             /\ ~(obs'.op \in {"TableViewsSelect", "TableViewsLoad"} /\ obs'.sess = s)
                   => w = v
             /\ w.table_data.has => (w.selected_table # NoTable
                                      /\ ~IsEmptyFrame(w.table_data.df))]_vars

\* a frame loaded from the selected table is held, and a later load of the
\* same table, emptied meanwhile, has failed and left it in place
C27_Witness ==
    /\ obs.op = "TableViewsLoad"
    /\ ~obs.ret.loaded
    /\ views[obs.sess].table_data.has
    /\ Len(views[obs.sess].table_data.df) = MIN_ROWS_TO_LOAD
    /\ db[views[obs.sess].selected_table] = {}

\* C30: whenever the page builds the rows-to-load control for the selected
\* table, the bounds it gives satisfy minimum <= default <= maximum, the
\* minimum being 100 and the maximum min(10000, row count), or 10000 for a row
\* count of 0.
C30_RowsToLoadBoundsConsistent ==
    (obs.op \in ViewsOps /\ obs.ret.control # NoControl) =>
      /\ obs.ret.control.min_value = MIN_ROWS_TO_LOAD
      /\ obs.ret.control.max_value =
            (IF obs.ret.row_count = 0 THEN MAX_ROWS_TO_LOAD
             ELSE Min(MAX_ROWS_TO_LOAD, obs.ret.row_count))
      /\ obs.ret.control.min_value <= obs.ret.control.value
      /\ obs.ret.control.value <= obs.ret.control.max_value

(***************************************************************************)
(* Properties of the analyses.                                             *)
(***************************************************************************)
\* the number of values of a column below and above x (in quarters)
Below4(col, x4) == Cardinality({i \in DOMAIN col : 4 * col[i] < x4})
Above4(col, x4) == Cardinality({i \in DOMAIN col : 4 * col[i] > x4})

\* C19: the bounds are Q1 - 1.5*IQR and Q3 + 1.5*IQR with IQR = Q3 - Q1, Q1 and
\* Q3 being the quartiles of the column, and the rows flagged are exactly those
\* strictly below the lower or strictly above the upper bound; a value equal
\* to a bound is not flagged.
C19_OutliersStrictlyOutsideBounds ==
    obs.op = "outlier_detection" =>
      LET col == obs.arg[1]
          r == obs.ret
          n == Len(col)
      IN  /\ r.IQR = r.Q3 - r.Q1
          /\ r.IQR >= 0
          /\ 4 * Below4(col, r.Q1) <= (n - 1) + 3
          /\ 4 * Above4(col, r.Q1) <= 3 * (n - 1) + 3
          /\ 4 * Below4(col, r.Q3) <= 3 * (n - 1) + 3
          /\ 4 * Above4(col, r.Q3) <= (n - 1) + 3
          /\ r.lower_bound = 2 * r.Q1 - 3 * r.IQR
          /\ r.upper_bound = 2 * r.Q3 + 3 * r.IQR
          /\ r.outliers =
                SelectSeq(col, LAMBDA v : 8 * v < r.lower_bound \/ 8 * v > r.upper_bound)
          /\ \A i \in DOMAIN r.outliers :
                8 * r.outliers[i] # r.lower_bound /\ 8 * r.outliers[i] # r.upper_bound

\* a column with a value on the upper bound, which is not flagged
C19_Witness ==
    /\ obs.op = "outlier_detection"
    /\ obs.ret.IQR > 0
    /\ \E i \in DOMAIN obs.arg[1] : 8 * obs.arg[1][i] = obs.ret.upper_bound
    /\ obs.ret.outliers = <<>>

\* C20: the heatmap builder returns a chart only for an input with at least 2
\* numeric columns; with fewer, or with absent or empty input, it returns no
\* chart and does not raise.
C20_HeatmapNeedsTwoNumericColumns ==
    obs.op = "create_heatmap" =>
      LET data == obs.arg[1]
      IN  /\ obs.ret \in {"Figure", "None"}
          /\ obs.ret = "Figure" => (~data.absent /\ data.numeric >= 2)
          /\ (data.absent \/ data.numeric < 2 \/ data.rows = 0) => obs.ret = "None"

(***************************************************************************)
(* Properties of concurrent get_table_stats calls.                         *)
(***************************************************************************)
\* C10: while the entry's window has not elapsed, the sessions that have called
\* get_table_stats all hold the same result, whatever the interleaving of their
\* calls with each other and with writes, and the per-table count scan has been
\* started at most once.
C10_StatsSharedSingleScan ==
    /\ scans <= 1
    /\ \A s1, s2 \in Sessions :
         (acc[s1].done /\ acc[s2].done) =>
            /\ acc[s1].ret.total_records = acc[s2].ret.total_records
            /\ acc[s1].ret = acc[s2].ret

\* both sessions hold the one computed result although the table has since changed
C10_Witness ==
    /\ \A s \in Sessions : acc[s].done /\ acc[s].ret.has /\ pc[s] = "idle"
    /\ scans = 1
    /\ dbUp
    /\ acc["s1"].ret.total_records # CountScan(db, TableList)

====
